---- MODULE Spec2Model ----
(***************************************************************************)
(* The three WASM decoder wrappers (AV1 over dav1d, HEVC over libde265,    *)
(* VP9 over libvpx) as one state machine: the allocator's heap, the        *)
(* library contexts behind the sessions, the tokens the host holds, the    *)
(* position of a decode call inside the AV1 send loop, and a record of the *)
(* last completed call (what it returned, allocated, freed and asked of    *)
(* the library).                                                           *)
(*                                                                         *)
(* The libraries are not part of the repository.  Each is modelled by the  *)
(* calls the wrappers make on it and the answers its API documents; what   *)
(* the bytes of a chunk make the library do is an input of the call.       *)
(***************************************************************************)
EXTENDS Integers, Sequences, FiniteSets, TLC

\* ------------------------------------------------------------- bounds
MaxFrames   == 1    \* Frame Records the host keeps before releasing one
MaxHeld     == 2    \* Frame Records a host that is slow to release them keeps
MaxOwned    == 2    \* sessions and buffers of its own the host keeps alive at a time
MaxStale    == 1    \* handles it destroyed a host that passes them again keeps
MaxInbufs   == 2    \* dav1d input buffers the allocator has room for
MaxPics     == 2    \* pictures one library context decodes in its life
MaxPerChunk == 2    \* pictures one chunk can make a library decode
MaxDim      == 3    \* width and height of the pictures whose bytes are followed
MaxPad      == 1    \* bytes of padding a library leaves after a row of a plane

Codecs == {"av1", "hevc", "vp9"}

\* Heap addresses (0 is NULL).  Each adapter is a module of its own (each
\* exports a free_frame), with one heap: sessions, dav1d input buffers, planes,
\* records and the buffers of the host all come from it, and a block that was
\* freed may be handed out again to whoever asks next.  The heap has room for
\* what the host of the model keeps at a time.
MaxAddr == MaxOwned + MaxInbufs + 4 * MaxHeld
Addr    == 1..MaxAddr

VARIABLES
  heap,   \* [Addr -> block]: what malloc has handed out and free not yet taken back
  lib,    \* [Addr -> context]: the library context opened for the session at that address
  host,   \* the adapter the host has instantiated and the tokens it holds: live handles, destroyed
          \* handles (with their adapter), unreleased records, buffers of its own, and the number of
          \* records it keeps before it releases one
  pc,     \* Idle, or the av1_decode call that is inside its send loop
  last,   \* the call that has returned and whose result the host has not taken yet
  pict,   \* the picture descriptor a library hands to an extractor (the extraction in detail)
  rec     \* what the extractor made of it: the record's fields and the bytes of its planes

vars == <<heap, lib, host, pc, last, pict, rec>>

\* ------------------------------------------------------------- allocator
\* stdlib malloc/free as the wrappers use them: NULL on failure, free(NULL) a no-op.
NoBlock == [kind |-> "free"]

\* Op applied to the value of e: a local variable assigned once.  (A bound
\* variable holds a value; a LET definition is expanded wherever it is used.)
With(e, Op(_)) == CHOOSE r \in {Op(v) : v \in {e}} : TRUE

FreeAddrs(hp) == With(hp, LAMBDA H : {a \in Addr : H[a].kind = "free"})

Lowest(S) == With(S, LAMBDA T : CHOOSE a \in T : \A b \in T : a <= b)

\* `fit` is the allocator's answer to a request: the blocks it finds large
\* enough for it (none: it answers NULL).  The block it hands out is the first
\* of them that is free.
malloc(hp, fit) ==
  With(FreeAddrs(hp) \cap fit, LAMBDA F : IF F # {} THEN Lowest(F) ELSE 0)

Store(hp, a, blk) == With(a, LAMBDA p : IF p = 0 THEN hp ELSE [hp EXCEPT ![p] = blk])

free(hp, a) == With(a, LAMBDA p : IF p = 0 THEN hp ELSE [hp EXCEPT ![p] = NoBlock])

\* The non-NULL pointers of a sequence of free() calls, in call order.
NonNull(ptrs) == SelectSeq(ptrs, LAMBDA p : p # 0)

Live(hp, a) == a \in Addr /\ hp[a].kind # "free"

\* ------------------------------------------------------------- pictures
\* A decoded picture is named by its output position in its context (1, 2, ...).
\* What the library reports of its plane pointers when it hands the picture out:
\* all three, luma only (a monochrome picture), or none.
PlaneSets == {"yuv", "y", "none"}

SeqFromTo(a, b) == [i \in 1..(IF b >= a THEN b - a + 1 ELSE 0) |-> a + i - 1]

Min(a, b) == IF a <= b THEN a ELSE b

Take(s, n) == SubSeq(s, 1, Min(n, Len(s)))

Drop(s, n) == SubSeq(s, Min(n, Len(s)) + 1, Len(s))

\* What the bytes of one chunk make a library do: accept or reject them, decode
\* `dec` pictures from them, and (libde265) move `out` pictures from the reorder
\* buffer to the output queue.
Chunk == [ok : BOOLEAN, dec : 0..MaxPerChunk, out : 0..MaxPerChunk]

\* The pictures a chunk adds to a context that has decoded next-1 so far.
NewPics(next, chunk) == SeqFromTo(next, Min(next + chunk.dec - 1, MaxPics))

NoCtx == [kind |-> "none"]

\* ------------------------------------------------------------- dav1d
\* Context: `out` the picture ready for dav1d_get_picture, `held` the pictures
\* still to be parsed from input the library has taken but not finished
\* (c->in), `inbuf` the buffer of that input, `next` the next picture's name.
Dav1dOpen == [kind |-> "dav1d", out |-> <<>>, held |-> <<>>, inbuf |-> 0, next |-> 1]

\* dav1d_send_data: EAGAIN while earlier input is still held (the library asks
\* for dav1d_get_picture first); an error for a chunk it rejects, the buffer
\* staying the caller's; otherwise it takes the buffer, parses up to the first
\* picture and holds the rest.  `rel` is the buffer the library is done with.
dav1d_send_data(ctx, buf, chunk) ==
  IF ctx.inbuf # 0
  THEN [ret |-> "EAGAIN", ctx |-> ctx, took |-> FALSE, rel |-> 0]
  ELSE IF ~chunk.ok
  THEN [ret |-> "ERR", ctx |-> ctx, took |-> FALSE, rel |-> 0]
  ELSE LET pics == NewPics(ctx.next, chunk)
           nout == IF ctx.out = <<>> THEN Take(pics, 1) ELSE <<>>
           rest == IF ctx.out = <<>> THEN Drop(pics, 1) ELSE pics
       IN [ret  |-> "OK",
           ctx  |-> [ctx EXCEPT !.out = ctx.out \o nout, !.held = rest,
                                !.inbuf = IF rest = <<>> THEN 0 ELSE buf,
                                !.next = ctx.next + Len(pics)],
           took |-> TRUE,
           rel  |-> IF rest = <<>> THEN buf ELSE 0]

\* dav1d_get_picture: goes on parsing held input until a picture is ready, then
\* hands out one picture, or answers EAGAIN when there is none.
dav1d_get_picture(ctx) ==
  LET parse == ctx.out = <<>> /\ ctx.held # <<>>
      out1  == IF parse THEN Take(ctx.held, 1) ELSE ctx.out
      held1 == IF parse THEN Drop(ctx.held, 1) ELSE ctx.held
      done  == parse /\ held1 = <<>>
  IN IF out1 = <<>>
     THEN [ret |-> "EAGAIN", pic |-> 0, ctx |-> ctx, rel |-> 0]
     ELSE [ret |-> "OK", pic |-> Head(out1),
           ctx |-> [ctx EXCEPT !.out = Tail(out1), !.held = held1,
                               !.inbuf = IF done THEN 0 ELSE ctx.inbuf],
           rel |-> IF done THEN ctx.inbuf ELSE 0]

\* dav1d_flush: drops every picture and all input the context holds.
dav1d_flush(ctx) ==
  [ctx |-> [ctx EXCEPT !.out = <<>>, !.held = <<>>, !.inbuf = 0], rel |-> ctx.inbuf]

\* dav1d_close: frees the context and the input it still holds.
dav1d_close(ctx) == [ctx |-> NoCtx, rel |-> ctx.inbuf]

\* ------------------------------------------------------------- libde265
\* Context: `reorder` the decoded pictures not yet due for output, `outq` the
\* output queue, `pend` whether the picture begun last is still to be
\* completed by a de265_decode call (the library learns that a picture is
\* complete from what follows it).
De265New ==
  [kind |-> "de265", reorder |-> <<>>, outq |-> <<>>, next |-> 1, pend |-> FALSE]

\* de265_push_NAL followed by one de265_decode: a rejected chunk changes nothing.
de265_push_decode(ctx, chunk) ==
  IF ~chunk.ok THEN ctx
  ELSE LET pics == NewPics(ctx.next, chunk)
           all  == ctx.reorder \o pics
       IN [ctx EXCEPT !.reorder = Drop(all, chunk.out),
                      !.outq = ctx.outq \o Take(all, chunk.out),
                      !.next = ctx.next + Len(pics),
                      !.pend = ctx.pend \/ pics # <<>>]

\* de265_flush_data followed by one de265_decode.  With a picture pending the
\* call completes that picture, and moves `out` pictures to the output queue
\* as any decode call does; the reorder buffer is emptied into the output
\* queue by a call that finds nothing pending.
de265_flush_decode(ctx, out) ==
  IF ctx.pend
  THEN [ctx EXCEPT !.reorder = Drop(ctx.reorder, out),
                   !.outq = ctx.outq \o Take(ctx.reorder, out),
                   !.pend = FALSE]
  ELSE [ctx EXCEPT !.reorder = <<>>, !.outq = ctx.outq \o ctx.reorder]

\* de265_release_next_picture: removes the head of the output queue; with an
\* empty queue it does nothing.
de265_release_next_picture(ctx) ==
  IF ctx.outq = <<>> THEN ctx ELSE [ctx EXCEPT !.outq = Tail(ctx.outq)]

\* de265_get_next_picture: the head of the output queue, which it removes from
\* the queue (it is de265_peek_next_picture followed by
\* de265_release_next_picture); 0 is NULL.
de265_get_next_picture(ctx) ==
  IF ctx.outq = <<>> THEN [img |-> 0, ctx |-> ctx]
  ELSE [img |-> Head(ctx.outq), ctx |-> de265_release_next_picture(ctx)]

\* ------------------------------------------------------------- libvpx
\* Context: `frame` the frame vpx_codec_get_frame has to hand out (the VP9
\* decoder shows at most the last frame of a chunk).
VpxInit == [kind |-> "vpx", frame |-> <<>>, next |-> 1]

\* vpx_codec_decode with data: an error leaves the context as it was; a decoded
\* chunk replaces the frame to show.
vpx_codec_decode(ctx, chunk) ==
  IF ~chunk.ok THEN [ret |-> "ERR", ctx |-> ctx]
  ELSE LET pics == Take(NewPics(ctx.next, chunk), 1)
       IN [ret |-> "OK", ctx |-> [ctx EXCEPT !.frame = pics, !.next = ctx.next + Len(pics)]]

\* vpx_codec_get_frame with a fresh iterator: the frame to show, handed out once.
vpx_codec_get_frame(ctx) ==
  IF ctx.frame = <<>> THEN [img |-> 0, ctx |-> ctx]
  ELSE [img |-> Head(ctx.frame), ctx |-> [ctx EXCEPT !.frame = Tail(ctx.frame)]]

\* ------------------------------------------------------------- inputs
\* The data pointer (TRUE: not NULL) and the size of a decode or configure call.
Args == [data : BOOLEAN, size : -1..1]

\* Chunks as the libraries tell them apart: a rejected chunk decodes nothing.
Chunks == {ch \in Chunk : ~ch.ok => (ch.dec = 0 /\ ch.out = 0)}

\* Only libde265 keeps a reorder buffer apart from its output queue.
ChunksOf(c) == IF c = "hevc" THEN Chunks ELSE {ch \in Chunks : ch.out = 0}

\* The answers of the allocator to a request: NULL, a block, or a block other
\* than that of a session the host destroyed and still names (a request that is
\* larger than that block passes it over).  Where the host names no destroyed
\* session, which free block is handed out is a renaming of the heap.
Answers == {{}, Addr, Addr \ {d.h : d \in host.dead}}

\* What an extraction meets: the plane pointers the library reports and the
\* allocator's answers to the four malloc calls, in call order.
ExtractInputs == [planes : PlaneSets, fitY : Answers, fitU : Answers, fitV : Answers, fitF : Answers]

AllFine == [planes |-> "yuv", fitY |-> Addr, fitU |-> Addr, fitV |-> Addr, fitF |-> Addr]

\* ------------------------------------------------------------- frame extraction
\* AllOrNothing with free(vOut) left out of the failure path.
AllOrNothingKeepsV(hp, yOut, uOut, vOut, frame) ==
  IF yOut = 0 \/ uOut = 0 \/ vOut = 0 \/ frame = 0
  THEN [heap |-> free(free(free(hp, yOut), uOut), frame), ret |-> 0,
        mallocs |-> <<yOut, uOut, vOut, frame>>,
        freed |-> NonNull(<<yOut, uOut, frame>>)]
  ELSE [heap |-> hp, ret |-> frame,
        mallocs |-> <<yOut, uOut, vOut, frame>>, freed |-> <<>>]

\* The test that follows the four allocations: if any of them failed, all four
\* pointers are freed (free(NULL) does nothing) and no record is returned.
AllOrNothing(hp, yOut, uOut, vOut, frame) ==
  IF yOut = 0 \/ uOut = 0 \/ vOut = 0 \/ frame = 0
  THEN [heap |-> free(free(free(free(hp, yOut), uOut), vOut), frame), ret |-> 0,
        mallocs |-> <<yOut, uOut, vOut, frame>>,
        freed |-> NonNull(<<yOut, uOut, vOut, frame>>)]
  ELSE [heap |-> hp, ret |-> frame,
        mallocs |-> <<yOut, uOut, vOut, frame>>, freed |-> <<>>]

\* The four allocations, in the order the extractors make them, and the test
\* that follows; the record keeps the three plane pointers (and, for the
\* checks, the picture it was copied from).
AllocFrame(hp, codec, pic, x) ==
  With(malloc(hp, x.fitY), LAMBDA yOut :
  With(Store(hp, yOut, [kind |-> "plane"]), LAMBDA h1 :
  With(malloc(h1, x.fitU), LAMBDA uOut :
  With(Store(h1, uOut, [kind |-> "plane"]), LAMBDA h2 :
  With(malloc(h2, x.fitV), LAMBDA vOut :
  With(Store(h2, vOut, [kind |-> "plane"]), LAMBDA h3 :
  With(malloc(h3, x.fitF), LAMBDA frame :
  With(Store(h3, frame, [kind |-> "record", codec |-> codec, pic |-> pic,
                         yPtr |-> yOut, uPtr |-> uOut, vPtr |-> vOut]), LAMBDA h4 :
    AllOrNothing(h4, yOut, uOut, vOut, frame)))))))))

NoFrame(hp) == [heap |-> hp, ret |-> 0, mallocs |-> <<>>, freed |-> <<>>]

\* av1: no record for a picture without a luma pointer.
av1_extract_picture(hp, pic, x) ==
  IF pic = 0 \/ x.planes = "none" THEN NoFrame(hp) ELSE AllocFrame(hp, "av1", pic, x)

\* hevc: no record unless all three plane pointers are there.
hevc_extract_picture(hp, img, x) ==
  IF img = 0 THEN NoFrame(hp)
  ELSE IF x.planes # "yuv" THEN NoFrame(hp)
  ELSE AllocFrame(hp, "hevc", img, x)

\* vp9: the plane pointers are not tested.
vp9_extract_image(hp, img, x) ==
  IF img = 0 THEN NoFrame(hp) ELSE AllocFrame(hp, "vp9", img, x)

\* ------------------------------------------------------------- extraction in detail
\* What a library reports of a decoded picture: its size, its pixel layout
\* ("400" is monochrome, "440" halves the chroma height only), its bit depth,
\* and the padding that follows each row of each plane (the stride is the row
\* plus the padding; dav1d has one stride for both chroma planes).  The planes
\* of a monochrome picture other than luma are NULL.
NoPicture == [codec |-> "none"]

NoRecord == [made |-> FALSE]

Layouts(c) ==
  CASE c = "av1"  -> {"400", "420", "422", "444"}
    [] c = "hevc" -> {"400", "420", "422", "444"}
    [] c = "vp9"  -> {"420", "422", "440", "444"}

Depths == {8, 10, 12}

\* The memory of a module has 32-bit addresses (a record holds its pointers as
\* int32_t): MemPages pages of 65536 bytes.  PagesOf counts the whole pages of
\* a plane of w by h samples; the pictures of the model are at most MaxDim
\* each way (less than a page) or a multiple of 256 each way (whole pages).
MemPages == 65536

PagesOf(w, h, bps) == (w \div 256) * (h \div 256) * bps

\* Sizes small enough to follow every byte, and two large ones: the luma plane
\* of the first is 2^29 samples, that of the second 2^31 samples, which as
\* bytes no longer fit an int.
Sizes == ((1..MaxDim) \X (1..MaxDim)) \cup {<<32768, 16384>>, <<65536, 32768>>}

Pads(c) == {q \in [y : 0..MaxPad, u : 0..MaxPad, v : 0..MaxPad] : c = "av1" => q.v = q.u}

PicturesOf(c) ==
  UNION {{[codec |-> c, w |-> sz[1], h |-> sz[2], layout |-> l, depth |-> d,
           yPad |-> pads.y, uPad |-> pads.u, vPad |-> pads.v] :
            l \in Layouts(c), d \in Depths, pads \in Pads(c)} :
         sz \in Sizes}

\* int arithmetic: a product that does not fit 32 bits wraps.  The product is
\* made of 16-bit halves so that no step of it leaves 32 bits.
Mul16(a, b) ==
  LET p0 == a * (b % 256)
      p1 == a * (b \div 256)
      t  == p0 + (p1 % 256) * 256
  IN [lo |-> t % (256 * 256), carry |-> (t \div (256 * 256)) + (p1 \div 256)]

MulInt32(a, b) ==
  LET W  == 256 * 256
      al == a % W
      ah == (a \div W) % W
      bl == b % W
      bh == (b \div W) % W
      m  == Mul16(al, bl)
      hi == (m.carry + Mul16(ah, bl).lo + Mul16(al, bh).lo) % W
  IN (IF hi >= W \div 2 THEN hi - W ELSE hi) * W + m.lo

\* layout_to_format, chroma_to_format, vpx_fmt_to_chroma: 444, 422, and 420
\* for every other layout.
layout_to_format(layout) ==
  CASE layout = "444" -> 444 [] layout = "422" -> 422 [] OTHER -> 420

chroma_to_format(chroma) ==
  CASE chroma = "444" -> 444 [] chroma = "422" -> 422 [] OTHER -> 420

vpx_fmt_to_chroma(fmt) ==
  CASE fmt = "444" -> 444 [] fmt = "422" -> 422 [] OTHER -> 420

\* vpx_fmt_bpc: the format has the high-bit-depth flag for 10 and 12 bits.
vpx_fmt_bpc(depth) == IF depth > 8 THEN 10 ELSE 8

\* The chroma size as the extractors of av1 and hevc work it out, from the
\* layout the library reports.
ChromaOfLayout(layout, w, h) ==
  IF layout = "420" THEN [w |-> (w + 1) \div 2, h |-> (h + 1) \div 2]
  ELSE IF layout = "422" THEN [w |-> (w + 1) \div 2, h |-> h]
  ELSE [w |-> w, h |-> h]

\* A chroma size that rounds the halves down: what the extractors must not do.
ChromaRoundedDown(fmt, w, h) ==
  IF fmt = 420 THEN [w |-> w \div 2, h |-> h \div 2]
  ELSE IF fmt = 422 THEN [w |-> w \div 2, h |-> h]
  ELSE [w |-> w, h |-> h]

\* The chroma size as the extractor of vp9 works it out, from the chromaFormat
\* it has already made of the image format.
ChromaOfFormat(fmt, w, h) ==
  IF fmt = 420 THEN [w |-> (w + 1) \div 2, h |-> (h + 1) \div 2]
  ELSE IF fmt = 422 THEN [w |-> (w + 1) \div 2, h |-> h]
  ELSE [w |-> w, h |-> h]

\* A header whose sizes leave out the bytes per sample.
HeaderOneByte(p, fmt, bpc, chroma) ==
  LET bytesPerSample == IF bpc > 8 THEN 2 ELSE 1
  IN [width |-> p.w, height |-> p.h, chromaFormat |-> fmt, bitDepth |-> bpc,
      chromaW |-> chroma.w, chromaH |-> chroma.h, bytesPerSample |-> bytesPerSample,
      ySize  |-> MulInt32(p.w, p.h),
      uvSize |-> MulInt32(chroma.w, chroma.h),
      yRowBytes  |-> MulInt32(p.w, bytesPerSample),
      uvRowBytes |-> MulInt32(chroma.w, bytesPerSample)]

\* The header of the record: the fields the extractor computes before it
\* allocates anything.
Header(p, fmt, bpc, chroma) ==
  LET bytesPerSample == IF bpc > 8 THEN 2 ELSE 1
  IN [width |-> p.w, height |-> p.h, chromaFormat |-> fmt, bitDepth |-> bpc,
      chromaW |-> chroma.w, chromaH |-> chroma.h, bytesPerSample |-> bytesPerSample,
      ySize  |-> MulInt32(MulInt32(p.w, p.h), bytesPerSample),
      uvSize |-> MulInt32(MulInt32(chroma.w, chroma.h), bytesPerSample),
      yRowBytes  |-> MulInt32(p.w, bytesPerSample),
      uvRowBytes |-> MulInt32(chroma.w, bytesPerSample)]

av1_header(p) ==
  Header(p, layout_to_format(p.layout), p.depth, ChromaOfLayout(p.layout, p.w, p.h))

hevc_header(p) ==
  Header(p, chroma_to_format(p.layout), p.depth, ChromaOfLayout(p.layout, p.w, p.h))

vp9_header(p) ==
  Header(p, vpx_fmt_to_chroma(p.layout), vpx_fmt_bpc(p.depth),
         ChromaOfFormat(vpx_fmt_to_chroma(p.layout), p.w, p.h))

HeaderOf(p) ==
  CASE p.codec = "av1"  -> av1_header(p)
    [] p.codec = "hevc" -> hevc_header(p)
    [] p.codec = "vp9"  -> vp9_header(p)

\* The picture as the library holds it.  A plane is rows of samples, each row
\* followed by its padding; the byte at an offset of a plane is a function of
\* the plane and the offset, different at every offset of the sizes followed.
SrcChroma(layout, w, h) ==
  CASE layout = "420" -> [w |-> (w + 1) \div 2, h |-> (h + 1) \div 2]
    [] layout = "422" -> [w |-> (w + 1) \div 2, h |-> h]
    [] layout = "440" -> [w |-> w, h |-> (h + 1) \div 2]
    [] layout = "444" -> [w |-> w, h |-> h]
    [] layout = "400" -> [w |-> 0, h |-> 0]

SrcBytesPerSample(p) == IF p.depth > 8 THEN 2 ELSE 1

\* The pages the three planes of a picture take in the library.
SrcPages(p) ==
  PagesOf(p.w, p.h, SrcBytesPerSample(p))
    + 2 * PagesOf(SrcChroma(p.layout, p.w, p.h).w, SrcChroma(p.layout, p.w, p.h).h,
                  SrcBytesPerSample(p))

\* A library hands out the pictures it holds in the memory of the module.
Pictures == {p \in UNION {PicturesOf(c) : c \in Codecs} : SrcPages(p) < MemPages}

\* The four requests of an extraction fit the memory beside the picture they
\* copy.  malloc takes a size_t: for a picture the memory holds, ySize and
\* uvSize converted to size_t are the products themselves, also where the int
\* is negative.
Fits(p, hd) ==
  SrcPages(p) + PagesOf(hd.width, hd.height, hd.bytesPerSample)
    + 2 * PagesOf(hd.chromaW, hd.chromaH, hd.bytesPerSample) < MemPages

PlaneIsNull(p, plane) == plane # "y" /\ p.layout = "400"

\* The stride a library reports for a plane; 0 for a plane that is not there.
Stride(p, plane) ==
  IF PlaneIsNull(p, plane) THEN 0
  ELSE CASE plane = "y" -> MulInt32(p.w, SrcBytesPerSample(p)) + p.yPad
         [] plane = "u" -> MulInt32(SrcChroma(p.layout, p.w, p.h).w, SrcBytesPerSample(p)) + p.uPad
         [] plane = "v" -> MulInt32(SrcChroma(p.layout, p.w, p.h).w, SrcBytesPerSample(p)) + p.vPad

SrcByte(plane, off) ==
  ((CASE plane = "y" -> 1 [] plane = "u" -> 90 [] plane = "v" -> 170) + 3 * off) % 256

\* A copy that takes the source rows as packed, whatever the stride.
CopyRowsPacked(plane, rows, rowBytes, stride) ==
  [i \in 1..(rows * rowBytes) |-> SrcByte(plane, i - 1)]

\* The copy loop of one plane: row after row, rowBytes bytes from
\* src + row * stride to out + row * rowBytes.
CopyRows(plane, rows, rowBytes, stride) ==
  [i \in 1..(rows * rowBytes) |->
     SrcByte(plane, ((i - 1) \div rowBytes) * stride + ((i - 1) % rowBytes))]

\* The loop writes past the buffer when a row ends after the size that was
\* asked of malloc.
OobWrite(size, rows, rowBytes) ==
  /\ size >= 0
  /\ \E row \in 0..(rows - 1) : MulInt32(row, rowBytes) + rowBytes > size

\* The bytes are followed for the pictures of at most MaxDim by MaxDim.
Followed(p) == p.w <= MaxDim /\ p.h <= MaxDim

\* A plane of the record after its loop: the rows copied; the bytes read
\* through a NULL plane pointer are whatever is there; after a write past the
\* buffer nothing is known of the contents.
CopyPlane(p, plane, size, rows, rowBytes, junk) ==
  IF ~Followed(p) \/ OobWrite(size, rows, rowBytes) THEN <<>>
  ELSE IF PlaneIsNull(p, plane) THEN [i \in 1..size |-> junk]
  ELSE CopyRows(plane, rows, rowBytes, Stride(p, plane))

CopyFaults(p, hd) ==
  (IF OobWrite(hd.ySize, hd.height, hd.yRowBytes) \/ OobWrite(hd.uvSize, hd.chromaH, hd.uvRowBytes)
     THEN {"oob_write"} ELSE {})
  \cup (IF PlaneIsNull(p, "u") \/ PlaneIsNull(p, "v") THEN {"null_read"} ELSE {})

NoDetail == [made |-> TRUE, ret |-> "null", faults |-> {}]

\* The record of the extractor once its four allocations succeeded.
Filled(p, hd, junk) ==
  [made |-> TRUE, ret |-> "record", faults |-> CopyFaults(p, hd),
   width |-> hd.width, height |-> hd.height,
   chromaFormat |-> hd.chromaFormat, bitDepth |-> hd.bitDepth,
   ySize |-> hd.ySize, uvSize |-> hd.uvSize,
   y |-> CopyPlane(p, "y", hd.ySize, hd.height, hd.yRowBytes, junk),
   u |-> CopyPlane(p, "u", hd.uvSize, hd.chromaH, hd.uvRowBytes, junk),
   v |-> CopyPlane(p, "v", hd.uvSize, hd.chromaH, hd.uvRowBytes, junk)]

\* av1: the luma pointer is checked, the chroma pointers are not.
av1_extract(p, ok, junk) ==
  IF PlaneIsNull(p, "y") \/ ~ok THEN NoDetail ELSE Filled(p, av1_header(p), junk)

\* hevc: no record of a picture with a plane missing.
hevc_extract(p, ok, junk) ==
  IF PlaneIsNull(p, "y") \/ PlaneIsNull(p, "u") \/ PlaneIsNull(p, "v") \/ ~ok
    THEN NoDetail ELSE Filled(p, hevc_header(p), junk)

vp9_extract(p, ok, junk) ==
  IF ~ok THEN NoDetail ELSE Filled(p, vp9_header(p), junk)

\* ------------------------------------------------------------- calls
Idle == [op |-> "idle"]

\* The outcome of a handler: the heap and the contexts it leaves, the token it
\* returns, the picture it took from the library (0: none), and its malloc,
\* free and library calls in order.
Outcome(hp, lb, ret, pic, mallocs, freed, libcalls) ==
  [heap |-> hp, lib |-> lb, ret |-> ret, pic |-> pic,
   mallocs |-> mallocs, freed |-> freed, libcalls |-> libcalls, faults |-> {}]

\* An outcome reached through undefined behaviour: "read_freed" a read of a
\* session block that was freed, "closed_ctx" a library call on a context that
\* was closed, "double_free" a free of a block that was freed, "stale_free" a
\* free of a block that was freed and belongs to another owner since,
\* "trapped" a call that such a step ended in a trap.
Faulty(o, F) == [o EXCEPT !.faults = F]

\* A handler that returns at its first test.
Nothing(ret) == Outcome(heap, lib, ret, 0, <<>>, <<>>, <<>>)

\* `!dec || !dec->ctx` (vp9: `!dec || !dec->initialized`) for a handle that is
\* NULL or a live session of the adapter.
NoDecoder(h) == h = 0 \/ lib[h].kind = "none"

\* BadInput with the test of the size left out.
BadInputNoSize(a) == ~a.data

\* `!data || size <= 0`.
BadInput(a) == ~a.data \/ a.size <= 0

\* ------------------------------------------------------------- hevc
hevc_create_decoder(fitDec, okCtx) ==
  LET dec == malloc(heap, fitDec)
  IN IF dec = 0 THEN Outcome(heap, lib, 0, 0, <<0>>, <<>>, <<>>)
     ELSE IF ~okCtx
     THEN Outcome(heap, lib, 0, 0, <<dec>>, <<dec>>, <<"de265_new_decoder">>)
     ELSE Outcome(Store(heap, dec, [kind |-> "session", codec |-> "hevc"]),
                  [lib EXCEPT ![dec] = De265New], dec, 0, <<dec>>, <<>>,
                  <<"de265_new_decoder", "de265_start_worker_threads">>)

\* The bytes are pushed and decoded as those of hevc_decode are; no picture
\* is asked of the library.
hevc_configure(h, a, chunk) ==
  IF NoDecoder(h) \/ BadInput(a) THEN Nothing(0)
  ELSE Outcome(heap, [lib EXCEPT ![h] = de265_push_decode(lib[h], chunk)],
               0, 0, <<>>, <<>>, <<"de265_push_NAL", "de265_decode">>)

\* A tail that releases the picture only when a record was made of it.
hevc_next_picture_kept(h, ctx, x, calls) ==
  LET get == de265_get_next_picture(ctx)
      img == get.img
      f   == hevc_extract_picture(heap, img, x)
  IN IF img = 0
     THEN Outcome(heap, [lib EXCEPT ![h] = ctx], 0, 0, <<>>, <<>>,
                  calls \o <<"de265_get_next_picture">>)
     ELSE IF f.ret = 0
     THEN Outcome(f.heap, [lib EXCEPT ![h] = get.ctx], 0, img, f.mallocs, f.freed,
                  calls \o <<"de265_get_next_picture">>)
     ELSE Outcome(f.heap, [lib EXCEPT ![h] = de265_release_next_picture(get.ctx)],
                  f.ret, img, f.mallocs, f.freed,
                  calls \o <<"de265_get_next_picture", "de265_release_next_picture">>)

\* The tail hevc_decode and hevc_flush share: take the next picture, copy it
\* out, call de265_release_next_picture.  The picture taken has left the
\* queue: the release falls on the picture that follows it there, if any.
hevc_next_picture(h, ctx, x, calls) ==
  LET get == de265_get_next_picture(ctx)
      img == get.img
      f   == hevc_extract_picture(heap, img, x)
  IN IF img = 0
     THEN Outcome(heap, [lib EXCEPT ![h] = ctx], 0, 0, <<>>, <<>>,
                  calls \o <<"de265_get_next_picture">>)
     ELSE Outcome(f.heap, [lib EXCEPT ![h] = de265_release_next_picture(get.ctx)],
                  f.ret, img, f.mallocs, f.freed,
                  calls \o <<"de265_get_next_picture", "de265_release_next_picture">>)

hevc_decode(h, a, chunk, x) ==
  IF NoDecoder(h) \/ BadInput(a) THEN Nothing(0)
  ELSE hevc_next_picture(h, de265_push_decode(lib[h], chunk), x,
                         <<"de265_push_NAL", "de265_decode">>)

hevc_flush(h, out, x) ==
  IF NoDecoder(h) THEN Nothing(0)
  ELSE hevc_next_picture(h, de265_flush_decode(lib[h], out), x,
                         <<"de265_flush_data", "de265_decode">>)

\* hevc_destroy without its `if (!dec) return`.
hevc_destroy_unchecked(h) ==
  Outcome(free(heap, h), IF h = 0 THEN lib ELSE [lib EXCEPT ![h] = NoCtx],
          0, 0, <<>>, <<h>>, <<"de265_free_decoder">>)

hevc_destroy(h) ==
  IF h = 0 THEN Nothing(0)
  ELSE Outcome(free(heap, h), [lib EXCEPT ![h] = NoCtx], 0, 0, <<>>, <<h>>,
               IF lib[h].kind # "none" THEN <<"de265_free_decoder">> ELSE <<>>)

\* ------------------------------------------------------------- vp9
vp9_create_decoder(fitDec, okInit) ==
  LET dec == malloc(heap, fitDec)
  IN IF dec = 0 THEN Outcome(heap, lib, 0, 0, <<0>>, <<>>, <<>>)
     ELSE IF ~okInit
     THEN Outcome(heap, lib, 0, 0, <<dec>>, <<dec>>, <<"vpx_codec_dec_init">>)
     ELSE Outcome(Store(heap, dec, [kind |-> "session", codec |-> "vp9"]),
                  [lib EXCEPT ![dec] = VpxInit], dec, 0, <<dec>>, <<>>,
                  <<"vpx_codec_dec_init">>)

vp9_configure(h, a) == Nothing(0)

\* The tail vp9_decode and vp9_flush share: the first frame of a fresh iterator.
vp9_get_frame(h, ctx, x, calls) ==
  LET g == vpx_codec_get_frame(ctx)
      f == vp9_extract_image(heap, g.img, x)
  IN Outcome(f.heap, [lib EXCEPT ![h] = g.ctx], f.ret, g.img, f.mallocs, f.freed,
             calls \o <<"vpx_codec_get_frame">>)

vp9_decode(h, a, chunk, x) ==
  IF NoDecoder(h) \/ BadInput(a) THEN Nothing(0)
  ELSE LET r == vpx_codec_decode(lib[h], chunk)
       IN IF r.ret # "OK"
          THEN Outcome(heap, [lib EXCEPT ![h] = r.ctx], 0, 0, <<>>, <<>>,
                       <<"vpx_codec_decode">>)
          ELSE vp9_get_frame(h, r.ctx, x, <<"vpx_codec_decode">>)

\* Flushing is vpx_codec_decode with no data, which decodes nothing.
vp9_flush(h, x) ==
  IF NoDecoder(h) THEN Nothing(0)
  ELSE vp9_get_frame(h, lib[h], x, <<"vpx_codec_decode">>)

vp9_destroy(h) ==
  IF h = 0 THEN Nothing(0)
  ELSE Outcome(free(heap, h), [lib EXCEPT ![h] = NoCtx], 0, 0, <<>>, <<h>>,
               IF lib[h].kind # "none" THEN <<"vpx_codec_destroy">> ELSE <<>>)

\* ------------------------------------------------------------- av1
\* A create that returns 0 when the library fails to open and keeps the
\* session block.
create_keeps_session(fitDec, okOpen) ==
  LET dec == malloc(heap, fitDec)
  IN IF dec = 0 THEN Outcome(heap, lib, 0, 0, <<0>>, <<>>, <<>>)
     ELSE IF ~okOpen
     THEN Outcome(Store(heap, dec, [kind |-> "session", codec |-> "av1"]), lib, 0, 0,
                  <<dec>>, <<>>, <<"dav1d_default_settings", "dav1d_open">>)
     ELSE Outcome(Store(heap, dec, [kind |-> "session", codec |-> "av1"]),
                  [lib EXCEPT ![dec] = Dav1dOpen], dec, 0, <<dec>>, <<>>,
                  <<"dav1d_default_settings", "dav1d_open">>)

av1_create_decoder(fitDec, okOpen) ==
  LET dec == malloc(heap, fitDec)
  IN IF dec = 0 THEN Outcome(heap, lib, 0, 0, <<0>>, <<>>, <<>>)
     ELSE IF ~okOpen
     THEN Outcome(heap, lib, 0, 0, <<dec>>, <<dec>>,
                  <<"dav1d_default_settings", "dav1d_open">>)
     ELSE Outcome(Store(heap, dec, [kind |-> "session", codec |-> "av1"]),
                  [lib EXCEPT ![dec] = Dav1dOpen], dec, 0, <<dec>>, <<>>,
                  <<"dav1d_default_settings", "dav1d_open">>)

\* A configure that resets the context of the session it is given.
configure_resets(h, a) ==
  IF NoDecoder(h) \/ BadInput(a) THEN Nothing(0)
  ELSE Outcome(heap, [lib EXCEPT ![h] = Dav1dOpen], 0, 0, <<>>, <<>>, <<"dav1d_flush">>)

av1_configure(h, a) == Nothing(0)

\* The tail av1_decode and av1_flush share: get a picture, copy it out, unref it.
\* `hp` is the heap and `ctx` the context as the calls before left them.
av1_get_picture(h, hp, ctx, x, mallocs, calls) ==
  LET g   == dav1d_get_picture(ctx)
      hp1 == free(hp, g.rel)
      f   == av1_extract_picture(hp1, g.pic, x)
  IN IF g.ret # "OK"
     THEN Outcome(hp1, [lib EXCEPT ![h] = g.ctx], 0, 0, mallocs, <<>>,
                  calls \o <<"dav1d_get_picture">>)
     ELSE Outcome(f.heap, [lib EXCEPT ![h] = g.ctx], f.ret, g.pic,
                  mallocs \o f.mallocs, f.freed,
                  calls \o <<"dav1d_get_picture", "dav1d_picture_unref">>)

\* av1_decode from the end of its send loop: the answer that ended the loop is
\* not looked at, and the input buffer is never unreferenced by the wrapper.
av1_decode_rest(h, buf, chunk, x) ==
  LET s == dav1d_send_data(lib[h], buf, chunk)
  IN av1_get_picture(h, free(heap, s.rel), s.ctx, x, <<buf>>,
                     <<"dav1d_data_create", "dav1d_send_data">>)

av1_flush(h, x) ==
  IF NoDecoder(h) THEN Nothing(0)
  ELSE LET fl == dav1d_flush(lib[h])
       IN av1_get_picture(h, free(heap, fl.rel), fl.ctx, x, <<>>, <<"dav1d_flush">>)

\* A destroy that frees the records and planes still allocated.
av1_destroy_sweeps(h) ==
  IF h = 0 THEN Nothing(0)
  ELSE Outcome([a \in Addr |-> IF a = h \/ heap[a].kind \in {"record", "plane"}
                                 THEN NoBlock ELSE heap[a]],
               [lib EXCEPT ![h] = NoCtx], 0, 0, <<>>, <<h>>, <<"dav1d_close">>)

av1_destroy(h) ==
  IF h = 0 THEN Nothing(0)
  ELSE LET cl == dav1d_close(lib[h])
       IN IF lib[h].kind # "none"
          THEN Outcome(free(free(heap, cl.rel), h), [lib EXCEPT ![h] = cl.ctx],
                       0, 0, <<>>, <<h>>, <<"dav1d_close">>)
          ELSE Outcome(free(heap, h), lib, 0, 0, <<>>, <<h>>, <<>>)

\* ------------------------------------------------------------- frame release
\* free_frame with free(frame->vPtr) left out.
free_frame_keeps_v(ptr) ==
  IF ptr = 0 THEN Nothing(0)
  ELSE LET frame == heap[ptr]
       IN Outcome(free(free(free(heap, frame.yPtr), frame.uPtr), ptr),
                  lib, 0, 0, <<>>, <<frame.yPtr, frame.uPtr, ptr>>, <<>>)

free_frame(ptr) ==
  IF ptr = 0 THEN Nothing(0)
  ELSE LET frame == heap[ptr]
       IN Outcome(free(free(free(free(heap, frame.yPtr), frame.uPtr), frame.vPtr), ptr),
                  lib, 0, 0, <<>>, <<frame.yPtr, frame.uPtr, frame.vPtr, ptr>>, <<>>)

\* ------------------------------------------------------------- exported malloc, free
\* The allocator is exported with the handlers: the host allocates the buffer
\* it passes its bytes in, and frees it.
host_malloc(fit) ==
  LET p == malloc(heap, fit)
  IN Outcome(Store(heap, p, [kind |-> "host"]), lib, p, 0, <<p>>, <<>>, <<>>)

host_free(p) == Outcome(free(heap, p), lib, 0, 0, <<>>, NonNull(<<p>>), <<>>)

\* ------------------------------------------------------------- the host
\* What a call was given: the data pointer and size, what the library makes of
\* the chunk, and the plane pointers it reports for the picture it hands out.
In(a, chunk, x) ==
  [data |-> a.data, size |-> a.size, chunk |-> chunk, planes |-> x.planes]

NoChunk == [ok |-> TRUE, dec |-> 0, out |-> 0]

NoInput == In([data |-> TRUE, size |-> 0], NoChunk, AllFine)

\* The record of a completed call: the handler, the token it was passed, its
\* inputs and its outcome.
Call(op, codec, h, in, r) ==
  [op |-> op, codec |-> codec, h |-> h, in |-> in,
   ret |-> r.ret, pic |-> r.pic, mallocs |-> r.mallocs, freed |-> r.freed,
   libcalls |-> r.libcalls, faults |-> r.faults]

NoCall ==
  [op |-> "none", codec |-> "none", h |-> 0, in |-> NoInput, ret |-> 0,
   pic |-> 0, mallocs |-> <<>>, freed |-> <<>>, libcalls |-> <<>>, faults |-> {}]

\* What the host holds after a call: the handle create returned, the record
\* decode or flush returned; a handle it destroyed and a record it released
\* are struck off.
HostAfter(c) ==
  CASE c.op = "create" /\ c.ret # 0 ->
         [host EXCEPT !.handles = @ \cup {c.ret},
                      !.dead = {d \in @ : d.h # c.ret}]
    [] c.op \in {"decode", "flush"} /\ c.ret # 0 ->
         [host EXCEPT !.frames = @ \cup {c.ret}]
    [] c.op = "destroy" /\ c.h # 0 ->
         [host EXCEPT !.handles = @ \ {c.h},
                      !.dead = IF Cardinality(@) < host.stale
                                THEN @ \cup {[h |-> c.h, codec |-> c.codec]} ELSE @]
    [] c.op = "free_frame" ->
         [host EXCEPT !.frames = @ \ {c.h}]
    [] c.op = "malloc" /\ c.ret # 0 ->
         [host EXCEPT !.bufs = @ \cup {c.ret}]
    [] c.op = "free" ->
         [host EXCEPT !.bufs = @ \ {c.h}]
    [] OTHER -> host

\* A handler runs to its return.
Return(op, codec, h, in, r) ==
  \E o \in {r} :
    /\ heap' = o.heap
    /\ lib' = o.lib
    /\ last' = Call(op, codec, h, in, o)
    /\ pc' = Idle
    /\ UNCHANGED <<host, pict, rec>>

\* The host makes its calls one after the other: the next one when the last
\* has returned and its result is taken.
Ready == pc = Idle /\ last = NoCall

\* The handles the host passes to its adapter: NULL, or a live handle of its own.
Handles(c) == IF host.codec = c THEN {0} \cup host.handles ELSE {}

CanCreate(c) ==
  host.codec = c /\ Cardinality(host.handles) + Cardinality(host.bufs) < host.owned

\* The answers of the allocator to dav1d_data_create: NULL once MaxInbufs input
\* buffers are allocated.
BufAnswers ==
  IF Cardinality({a \in Addr : heap[a].kind = "inbuf"}) < MaxInbufs THEN Answers ELSE {{}}

CanReceive == Cardinality(host.frames) < host.room

\* The extraction inputs that matter to a call: all of them when the call takes
\* a picture from the library, one otherwise.
InputsFor(r) == IF r.pic = 0 THEN {AllFine} ELSE ExtractInputs

\* The chunks that matter to a decode call: one when the call returns at its
\* first test.
ChunksFor(c, h, a) ==
  IF NoDecoder(h) \/ BadInput(a) THEN {ch \in Chunks : ~ch.ok} ELSE ChunksOf(c)

\* The host that has instantiated the module of adapter c and holds nothing.
\* `room` and `owned` are what it keeps at a time of records, and of sessions
\* and buffers together; `stale` is how many handles it destroyed it keeps.
NoTokens(c, room, owned, stale) ==
  [codec |-> c, handles |-> {}, dead |-> {}, frames |-> {}, bufs |-> {},
   room |-> room, owned |-> owned, stale |-> stale]

Init ==
  /\ heap = [a \in Addr |-> NoBlock]
  /\ lib = [a \in Addr |-> NoCtx]
  /\ \E c \in Codecs : host = NoTokens(c, MaxFrames, MaxOwned, 0)
  /\ pc = Idle
  /\ last = NoCall
  /\ pict = NoPicture
  /\ rec = NoRecord

\* ------------------------------------------------------------- actions
HevcCreate ==
  /\ Ready /\ CanCreate("hevc")
  /\ \E fitDec \in Answers, okCtx \in BOOLEAN :
       Return("create", "hevc", 0, NoInput, hevc_create_decoder(fitDec, okCtx))

HevcConfigure ==
  /\ Ready
  /\ \E h \in Handles("hevc"), a \in Args :
       \E chunk \in ChunksFor("hevc", h, a) :
         Return("configure", "hevc", h, In(a, chunk, AllFine), hevc_configure(h, a, chunk))

HevcDecode ==
  /\ Ready /\ CanReceive
  /\ \E h \in Handles("hevc"), a \in Args :
       \E chunk \in ChunksFor("hevc", h, a) :
         \E x \in InputsFor(hevc_decode(h, a, chunk, AllFine)) :
           Return("decode", "hevc", h, In(a, chunk, x), hevc_decode(h, a, chunk, x))

\* What the de265_decode of a flush moves to the output queue matters when it
\* completes a pending picture.
HevcFlush ==
  /\ Ready /\ CanReceive
  /\ \E h \in Handles("hevc") :
       \E out \in IF NoDecoder(h) \/ ~lib[h].pend THEN {0}
                   ELSE 0..Min(MaxPerChunk, Len(lib[h].reorder)) :
         \E x \in InputsFor(hevc_flush(h, out, AllFine)) :
           Return("flush", "hevc", h, In(NoInput, [NoChunk EXCEPT !.out = out], x),
                  hevc_flush(h, out, x))

HevcDestroy ==
  /\ Ready
  /\ \E h \in Handles("hevc") : Return("destroy", "hevc", h, NoInput, hevc_destroy(h))

Vp9Create ==
  /\ Ready /\ CanCreate("vp9")
  /\ \E fitDec \in Answers, okInit \in BOOLEAN :
       Return("create", "vp9", 0, NoInput, vp9_create_decoder(fitDec, okInit))

Vp9Configure ==
  /\ Ready
  /\ \E h \in Handles("vp9"), a \in Args :
       Return("configure", "vp9", h, In(a, NoChunk, AllFine), vp9_configure(h, a))

Vp9Decode ==
  /\ Ready /\ CanReceive
  /\ \E h \in Handles("vp9"), a \in Args :
       \E chunk \in ChunksFor("vp9", h, a) :
         \E x \in InputsFor(vp9_decode(h, a, chunk, AllFine)) :
           Return("decode", "vp9", h, In(a, chunk, x), vp9_decode(h, a, chunk, x))

Vp9Flush ==
  /\ Ready /\ CanReceive
  /\ \E h \in Handles("vp9") :
       \E x \in InputsFor(vp9_flush(h, AllFine)) :
         Return("flush", "vp9", h, In(NoInput, NoChunk, x), vp9_flush(h, x))

Vp9Destroy ==
  /\ Ready
  /\ \E h \in Handles("vp9") : Return("destroy", "vp9", h, NoInput, vp9_destroy(h))

Av1Create ==
  /\ Ready /\ CanCreate("av1")
  /\ \E fitDec \in Answers, okOpen \in BOOLEAN :
       Return("create", "av1", 0, NoInput, av1_create_decoder(fitDec, okOpen))

Av1Configure ==
  /\ Ready
  /\ \E h \in Handles("av1"), a \in Args :
       Return("configure", "av1", h, In(a, NoChunk, AllFine), av1_configure(h, a))

\* av1_decode up to its send loop: the tests on the arguments and the input
\* buffer made for the chunk.
av1_decode_enter(h, a, chunk, fitBuf) ==
  LET buf == malloc(heap, fitBuf)
  IN IF NoDecoder(h) \/ BadInput(a)
     THEN Return("decode", "av1", h, In(a, chunk, AllFine), Nothing(0))
     ELSE IF buf = 0
     THEN Return("decode", "av1", h, In(a, chunk, AllFine),
                 Outcome(heap, lib, 0, 0, <<0>>, <<>>, <<"dav1d_data_create">>))
     ELSE /\ heap' = Store(heap, buf, [kind |-> "inbuf"])
          /\ pc' = [op |-> "av1_send", h |-> h, a |-> a, buf |-> buf,
                    chunk |-> chunk, odd |-> FALSE]
          /\ UNCHANGED <<lib, host, last, pict, rec>>

Av1DecodeEnter ==
  /\ Ready /\ CanReceive
  /\ \E h \in Handles("av1"), a \in Args :
       \E chunk \in ChunksFor("av1", h, a), fitBuf \in BufAnswers :
         av1_decode_enter(h, a, chunk, fitBuf)

\* One turn of the send loop that ends in EAGAIN: the same call is made again
\* (`odd` is the parity of the turns made).
Av1DecodeSendAgain ==
  /\ pc.op = "av1_send"
  /\ dav1d_send_data(lib[pc.h], pc.buf, pc.chunk).ret = "EAGAIN"
  /\ pc' = [pc EXCEPT !.odd = ~@]
  /\ UNCHANGED <<heap, lib, host, last, pict, rec>>

\* The turn of the send loop that ends it, and the rest of av1_decode.
Av1DecodeFinish ==
  /\ pc.op = "av1_send"
  /\ dav1d_send_data(lib[pc.h], pc.buf, pc.chunk).ret # "EAGAIN"
  /\ \E x \in InputsFor(av1_decode_rest(pc.h, pc.buf, pc.chunk, AllFine)) :
       Return("decode", "av1", pc.h, In(pc.a, pc.chunk, x),
              av1_decode_rest(pc.h, pc.buf, pc.chunk, x))

Av1Flush ==
  /\ Ready /\ CanReceive
  /\ \E h \in Handles("av1") :
       \E x \in InputsFor(av1_flush(h, AllFine)) :
         Return("flush", "av1", h, In(NoInput, NoChunk, x), av1_flush(h, x))

Av1Destroy ==
  /\ Ready
  /\ \E h \in Handles("av1") : Return("destroy", "av1", h, NoInput, av1_destroy(h))

\* free_frame on a record the host holds, or on the empty token.
FreeFrame ==
  /\ Ready
  /\ \E ptr \in host.frames \cup {0} :
       Return("free_frame", IF ptr = 0 THEN "none" ELSE heap[ptr].codec, ptr, NoInput,
              free_frame(ptr))

\* The host allocates a buffer of its own, and frees one (or NULL).
HostMalloc ==
  /\ Ready /\ Cardinality(host.handles) + Cardinality(host.bufs) < host.owned
  /\ \E fit \in Answers : Return("malloc", host.codec, 0, NoInput, host_malloc(fit))

HostFree ==
  /\ Ready
  /\ \E p \in host.bufs \cup {0} : Return("free", host.codec, p, NoInput, host_free(p))

\* The host takes the result of the call that returned.
HostTakes ==
  /\ pc = Idle /\ last # NoCall
  /\ host' = HostAfter(last)
  /\ last' = NoCall
  /\ UNCHANGED <<heap, lib, pc, pict, rec>>

Next ==
  \/ HevcCreate \/ HevcConfigure \/ HevcDecode \/ HevcFlush \/ HevcDestroy
  \/ Vp9Create \/ Vp9Configure \/ Vp9Decode \/ Vp9Flush \/ Vp9Destroy
  \/ Av1Create \/ Av1Configure \/ Av1DecodeEnter \/ Av1DecodeSendAgain
  \/ Av1DecodeFinish \/ Av1Flush \/ Av1Destroy
  \/ FreeFrame \/ HostMalloc \/ HostFree \/ HostTakes

Spec == Init /\ [][Next]_vars

\* A host that keeps up to MaxHeld records: it calls decode and flush while it
\* holds records of earlier calls.  The host that keeps one record more keeps
\* one session or buffer less.
InitHold ==
  /\ heap = [a \in Addr |-> NoBlock]
  /\ lib = [a \in Addr |-> NoCtx]
  /\ \E c \in Codecs, k \in 0..(MaxHeld - MaxFrames) :
       host = NoTokens(c, MaxFrames + k, MaxOwned - k, 0)
  /\ pc = Idle
  /\ last = NoCall
  /\ pict = NoPicture
  /\ rec = NoRecord

HoldSpec == InitHold /\ [][Next]_vars

\* A call that has begun goes on running: the exported functions are
\* synchronous and nothing suspends them.
FairSpec ==
  Init /\ [][Next]_vars /\ WF_vars(Av1DecodeSendAgain) /\ WF_vars(Av1DecodeFinish)

\* ------------------------------------------------------------- a stream played
\* The host that plays one valid stream: it creates a decoder, feeds chunks the
\* library accepts through decode, and releases the records it gets.  No
\* allocation fails.  The pictures of a stream have one layout, and the library
\* reports for each the planes that layout has.
GoodArgs == [data |-> TRUE, size |-> 1]

StreamChunks(c) == {ch \in ChunksOf(c) : ch.ok}

\* The streams: an adapter and a layout its library decodes (`pict` holds them;
\* the size, the depth and the padding of the pictures play no part).
StreamFormats ==
  {p \in Pictures : p.w = 1 /\ p.h = 1 /\ p.depth = 8 /\ p.yPad + p.uPad + p.vPad = 0}

\* What an extraction meets in the stream played.
StreamInput == [AllFine EXCEPT !.planes = IF PlaneIsNull(pict, "u") THEN "y" ELSE "yuv"]

InitStream ==
  /\ heap = [a \in Addr |-> NoBlock]
  /\ lib = [a \in Addr |-> NoCtx]
  /\ pict \in StreamFormats
  /\ host = NoTokens(pict.codec, MaxFrames, MaxOwned, 0)
  /\ pc = Idle
  /\ last = NoCall
  /\ rec = NoRecord

StreamCreate ==
  /\ Ready
  /\ \E c \in {d \in Codecs : CanCreate(d)} :
       Return("create", c, 0, NoInput,
              CASE c = "hevc" -> hevc_create_decoder(Addr, TRUE)
                [] c = "vp9"  -> vp9_create_decoder(Addr, TRUE)
                [] c = "av1"  -> av1_create_decoder(Addr, TRUE))

\* One chunk of the stream through hevc_decode or vp9_decode.
StreamFeed(c, h, chunk) ==
  Return("decode", c, h, In(GoodArgs, chunk, StreamInput),
         CASE c = "hevc" -> hevc_decode(h, GoodArgs, chunk, StreamInput)
           [] c = "vp9"  -> vp9_decode(h, GoodArgs, chunk, StreamInput))

StreamDecode ==
  /\ Ready /\ CanReceive
  /\ \E c \in {"hevc", "vp9"} :
       \E h \in Handles(c) \ {0}, chunk \in StreamChunks(c) : StreamFeed(c, h, chunk)

StreamAv1Enter ==
  /\ Ready /\ CanReceive
  /\ \E h \in Handles("av1") \ {0}, chunk \in StreamChunks("av1") :
       av1_decode_enter(h, GoodArgs, chunk, Addr)

StreamAv1Finish ==
  /\ pc.op = "av1_send"
  /\ dav1d_send_data(lib[pc.h], pc.buf, pc.chunk).ret # "EAGAIN"
  /\ Return("decode", "av1", pc.h, In(pc.a, pc.chunk, StreamInput),
            av1_decode_rest(pc.h, pc.buf, pc.chunk, StreamInput))

NextStream ==
  \/ StreamCreate \/ StreamDecode
  \/ StreamAv1Enter \/ Av1DecodeSendAgain \/ StreamAv1Finish
  \/ FreeFrame \/ HostTakes

\* The chunks with which the library has a decoded picture for output: what it
\* answers to the chunk, before the wrapper asks it for a picture.
FrameChunks(c, ctx) ==
  {ch \in StreamChunks(c) :
     CASE c = "hevc" -> de265_push_decode(ctx, ch).outq # <<>>
       [] c = "vp9"  -> vpx_codec_decode(ctx, ch).ctx.frame # <<>>
       [] c = "av1"  -> dav1d_send_data(ctx, 0, ch).ctx.out # <<>>}

\* The host feeds such a chunk.
FeedsFrame ==
  /\ Ready /\ CanReceive
  /\ \/ \E c \in {"hevc", "vp9"} :
          \E h \in Handles(c) \ {0} : \E chunk \in FrameChunks(c, lib[h]) : StreamFeed(c, h, chunk)
     \/ \E h \in Handles("av1") \ {0} : \E chunk \in FrameChunks("av1", lib[h]) :
          av1_decode_enter(h, GoodArgs, chunk, Addr)

\* The host goes on: it creates its decoder, takes what a call returns and,
\* the stream having a frame, comes to feed a chunk with which the library has
\* a picture for output; a call that has begun runs on.
StreamSpec ==
  /\ InitStream /\ [][NextStream]_vars
  /\ SF_vars(StreamCreate) /\ WF_vars(HostTakes)
  /\ SF_vars(FeedsFrame) /\ WF_vars(StreamAv1Finish)

\* ------------------------------------------------------------- destroyed handles
\* The same handlers called with a token whose session block destroy has freed.
\* Nothing in a wrapper tells such a token from a live one: `dec` is non-NULL,
\* and `dec->ctx` (vp9: `dec->initialized`) is read from the freed block.  What
\* that read gives is not defined; `w` is TRUE when it is non-zero.  A library
\* call that follows is a call on a context that was closed: it returns or it
\* traps, and a trap ends the call where it is ("trapped": no statement after
\* it is reached).  Of the library calls of a call that returns the model
\* records the first.  free(dec) of a block that is free returns or traps
\* likewise.  The block may since have been handed out again, as a plane, a
\* record, an input buffer or a buffer of the host (a token that names a new
\* session is a live handle): free(dec) then takes it from its owner
\* ("stale_free") and returns as any free does.
Freed(c) == {d.h : d \in {e \in host.dead : e.codec = c}}

\* Where a call made with a destroyed handle traps, if it does.
Traps == {"none", "library", "free"}

\* The library call on the closed context, and whether the call ends there.
ClosedCtx(trap) ==
  {"read_freed", "closed_ctx"} \cup (IF trap = "library" THEN {"trapped"} ELSE {})

\* free(dec) on the token of a block that was freed.
FreeFaults(h, trap) ==
  IF Live(heap, h) THEN {"read_freed", "stale_free"}
  ELSE {"read_freed", "double_free"} \cup (IF trap = "free" THEN {"trapped"} ELSE {})

hevc_configure_freed(a, w, trap) ==
  IF ~w \/ BadInput(a) THEN Faulty(Nothing(0), {"read_freed"})
  ELSE Faulty(Outcome(heap, lib, 0, 0, <<>>, <<>>, <<"de265_push_NAL">>), ClosedCtx(trap))

hevc_decode_freed(a, w, trap) ==
  IF ~w \/ BadInput(a) THEN Faulty(Nothing(0), {"read_freed"})
  ELSE Faulty(Outcome(heap, lib, 0, 0, <<>>, <<>>, <<"de265_push_NAL">>), ClosedCtx(trap))

hevc_flush_freed(w, trap) ==
  IF ~w THEN Faulty(Nothing(0), {"read_freed"})
  ELSE Faulty(Outcome(heap, lib, 0, 0, <<>>, <<>>, <<"de265_flush_data">>), ClosedCtx(trap))

\* de265_free_decoder is called when dec->ctx reads as non-zero; free(dec) is
\* the statement after it, reached unless that call trapped.
hevc_destroy_freed(h, w, trap) ==
  IF w /\ trap = "library"
  THEN Faulty(Outcome(heap, lib, 0, 0, <<>>, <<>>, <<"de265_free_decoder">>), ClosedCtx(trap))
  ELSE IF w
  THEN Faulty(Outcome(free(heap, h), lib, 0, 0, <<>>, <<h>>, <<"de265_free_decoder">>),
              FreeFaults(h, trap) \cup {"closed_ctx"})
  ELSE Faulty(Outcome(free(heap, h), lib, 0, 0, <<>>, <<h>>, <<>>), FreeFaults(h, trap))

vp9_decode_freed(a, w, trap) ==
  IF ~w \/ BadInput(a) THEN Faulty(Nothing(0), {"read_freed"})
  ELSE Faulty(Outcome(heap, lib, 0, 0, <<>>, <<>>, <<"vpx_codec_decode">>), ClosedCtx(trap))

vp9_flush_freed(w, trap) ==
  IF ~w THEN Faulty(Nothing(0), {"read_freed"})
  ELSE Faulty(Outcome(heap, lib, 0, 0, <<>>, <<>>, <<"vpx_codec_decode">>), ClosedCtx(trap))

\* vpx_codec_destroy when dec->initialized reads as non-zero, then free(dec).
vp9_destroy_freed(h, w, trap) ==
  IF w /\ trap = "library"
  THEN Faulty(Outcome(heap, lib, 0, 0, <<>>, <<>>, <<"vpx_codec_destroy">>), ClosedCtx(trap))
  ELSE IF w
  THEN Faulty(Outcome(free(heap, h), lib, 0, 0, <<>>, <<h>>, <<"vpx_codec_destroy">>),
              FreeFaults(h, trap) \cup {"closed_ctx"})
  ELSE Faulty(Outcome(free(heap, h), lib, 0, 0, <<>>, <<h>>, <<>>), FreeFaults(h, trap))

\* The input buffer is made before the first call on the context.
av1_decode_freed(a, w, fitBuf, trap) ==
  LET buf == malloc(heap, fitBuf)
  IN IF ~w \/ BadInput(a) THEN Faulty(Nothing(0), {"read_freed"})
     ELSE IF buf = 0
     THEN Faulty(Outcome(heap, lib, 0, 0, <<0>>, <<>>, <<"dav1d_data_create">>),
                 {"read_freed"})
     ELSE Faulty(Outcome(Store(heap, buf, [kind |-> "inbuf"]), lib, 0, 0, <<buf>>, <<>>,
                         <<"dav1d_data_create", "dav1d_send_data">>),
                 ClosedCtx(trap))

av1_flush_freed(w, trap) ==
  IF ~w THEN Faulty(Nothing(0), {"read_freed"})
  ELSE Faulty(Outcome(heap, lib, 0, 0, <<>>, <<>>, <<"dav1d_flush">>), ClosedCtx(trap))

\* dav1d_close when dec->ctx reads as non-zero, then free(dec).
av1_destroy_freed(h, w, trap) ==
  IF w /\ trap = "library"
  THEN Faulty(Outcome(heap, lib, 0, 0, <<>>, <<>>, <<"dav1d_close">>), ClosedCtx(trap))
  ELSE IF w
  THEN Faulty(Outcome(free(heap, h), lib, 0, 0, <<>>, <<h>>, <<"dav1d_close">>),
              FreeFaults(h, trap) \cup {"closed_ctx"})
  ELSE Faulty(Outcome(free(heap, h), lib, 0, 0, <<>>, <<h>>, <<>>), FreeFaults(h, trap))

\* The instance after a trap: no call returns and none can be made.
Trapped == [op |-> "trapped"]

\* A call made with a destroyed handle runs to its return, or to its trap.
ReturnOrTrap(op, codec, h, in, r) ==
  \E o \in {r} :
    /\ heap' = o.heap
    /\ lib' = o.lib
    /\ last' = Call(op, codec, h, in, o)
    /\ pc' = IF "trapped" \in o.faults THEN Trapped ELSE Idle
    /\ UNCHANGED <<host, pict, rec>>

FreedConfigure ==
  /\ Ready
  /\ \E c \in Codecs :
       \E h \in Freed(c), a \in Args, w \in BOOLEAN, trap \in Traps \ {"free"} :
         ReturnOrTrap("configure", c, h, In(a, NoChunk, AllFine),
                      CASE c = "hevc" -> hevc_configure_freed(a, w, trap)
                        [] c = "vp9"  -> vp9_configure(h, a)
                        [] c = "av1"  -> av1_configure(h, a))

FreedDecode ==
  /\ Ready
  /\ \E c \in Codecs :
       \E h \in Freed(c), a \in Args, w \in BOOLEAN, fitBuf \in BufAnswers,
          trap \in Traps \ {"free"} :
         ReturnOrTrap("decode", c, h, In(a, NoChunk, AllFine),
                      CASE c = "hevc" -> hevc_decode_freed(a, w, trap)
                        [] c = "vp9"  -> vp9_decode_freed(a, w, trap)
                        [] c = "av1"  -> av1_decode_freed(a, w, fitBuf, trap))

FreedFlush ==
  /\ Ready
  /\ \E c \in Codecs :
       \E h \in Freed(c), w \in BOOLEAN, trap \in Traps \ {"free"} :
         ReturnOrTrap("flush", c, h, NoInput,
                      CASE c = "hevc" -> hevc_flush_freed(w, trap)
                        [] c = "vp9"  -> vp9_flush_freed(w, trap)
                        [] c = "av1"  -> av1_flush_freed(w, trap))

FreedDestroy ==
  /\ Ready
  /\ \E c \in Codecs :
       \E h \in Freed(c), w \in BOOLEAN, trap \in Traps :
         ReturnOrTrap("destroy", c, h, NoInput,
                      CASE c = "hevc" -> hevc_destroy_freed(h, w, trap)
                        [] c = "vp9"  -> vp9_destroy_freed(h, w, trap)
                        [] c = "av1"  -> av1_destroy_freed(h, w, trap))

\* The instance is followed up to the return of a stale free.  The owner of the
\* block then holds the token of a block that is free, and what the calls that
\* follow make of it (they are calls with a freed token in their turn) is not
\* followed.
Sound == "stale_free" \notin last.faults

NextFreed ==
  \/ Sound /\ Next
  \/ FreedConfigure \/ FreedDecode \/ FreedFlush \/ FreedDestroy

\* A host that may also pass a handle it has destroyed.  For each destroyed
\* handle it keeps, it keeps one session or buffer less.
InitFreed ==
  /\ heap = [a \in Addr |-> NoBlock]
  /\ lib = [a \in Addr |-> NoCtx]
  /\ \E c \in Codecs : host = NoTokens(c, MaxFrames, MaxOwned - MaxStale, MaxStale)
  /\ pc = Idle
  /\ last = NoCall
  /\ pict = NoPicture
  /\ rec = NoRecord

FreedSpec == InitFreed /\ [][NextFreed]_vars

\* ------------------------------------------------------------- one extraction
\* The extractors applied to every picture of Pictures: the library hands over
\* a picture, the extractor of its adapter makes the record or returns NULL.
InitExtract ==
  /\ heap = [a \in Addr |-> NoBlock]
  /\ lib = [a \in Addr |-> NoCtx]
  /\ pc = Idle
  /\ last = NoCall
  /\ pict \in Pictures
  /\ host = NoTokens(pict.codec, MaxFrames, MaxOwned, 0)
  /\ rec = NoRecord

\* What the allocator answers to the four requests of an extraction: all four
\* blocks (TRUE), or NULL to one of them, which is the only answer to requests
\* that do not fit the memory.
MallocAnswers(p) == IF Fits(p, HeaderOf(p)) THEN BOOLEAN ELSE {FALSE}

ExtractAv1 ==
  /\ pict.codec = "av1" /\ ~rec.made
  /\ \E ok \in MallocAnswers(pict), junk \in {0, 255} : rec' = av1_extract(pict, ok, junk)
  /\ UNCHANGED <<heap, lib, host, pc, last, pict>>

ExtractHevc ==
  /\ pict.codec = "hevc" /\ ~rec.made
  /\ \E ok \in MallocAnswers(pict), junk \in {0, 255} : rec' = hevc_extract(pict, ok, junk)
  /\ UNCHANGED <<heap, lib, host, pc, last, pict>>

ExtractVp9 ==
  /\ pict.codec = "vp9" /\ ~rec.made
  /\ \E ok \in MallocAnswers(pict), junk \in {0, 255} : rec' = vp9_extract(pict, ok, junk)
  /\ UNCHANGED <<heap, lib, host, pc, last, pict>>

\* The next picture of the sequence: the layout and the depth are those of
\* the sequence, the size and the padding are any.
NextPicture ==
  /\ rec.made
  /\ \E sz \in Sizes, pads \in Pads(pict.codec) :
       pict' = [pict EXCEPT !.w = sz[1], !.h = sz[2],
                            !.yPad = pads.y, !.uPad = pads.u, !.vPad = pads.v]
  /\ pict' \in Pictures
  /\ rec' = NoRecord
  /\ UNCHANGED <<heap, lib, host, pc, last>>

NextExtract == ExtractAv1 \/ ExtractHevc \/ ExtractVp9 \/ NextPicture

ExtractSpec == InitExtract /\ [][NextExtract]_vars

\* ------------------------------------------------------------- properties
\* The extraction's four malloc results <<yOut, uOut, vOut, frame>> in a call's
\* record (av1_decode's input buffer comes before them); <<>> if none was made.
FrameMallocs(c) ==
  IF Len(c.mallocs) >= 4
  THEN SubSeq(c.mallocs, Len(c.mallocs) - 3, Len(c.mallocs)) ELSE <<>>

LiveHandle(h) == h \in host.handles /\ heap[h].kind = "session"

\* The pictures a context holds, next to come out first.
Buffered(ctx) ==
  CASE ctx.kind = "dav1d" -> ctx.out \o ctx.held
    [] ctx.kind = "de265" -> ctx.outq \o ctx.reorder
    [] ctx.kind = "vpx"   -> ctx.frame
    [] OTHER              -> <<>>

\* C1: every decode and flush call on a live handle returns: a call that is
\* under way (only av1_decode has a loop that waits on the library) comes back
\* to the host.
C1_CallsReturn == (pc # Idle) ~> (pc = Idle)

\* C3: once the host has released every record and destroyed every handle it
\* was given, no block the adapters allocated is live, the dav1d input buffers
\* included.
C3_NothingLeftAllocated ==
  (Ready /\ host.handles = {} /\ host.frames = {}) =>
    \A a \in Addr : heap[a].kind \in {"free", "host"}

\* C5: a decode call on a live handle whose chunk the library rejects returns
\* the empty token, whatever the library still holds from earlier chunks.
C5_RejectedChunkReturnsEmpty ==
  (last.op = "decode" /\ LiveHandle(last.h) /\ ~last.in.chunk.ok) => last.ret = 0

\* C6: flush hands out the backlog one picture per call.  A flush call on a
\* live handle in which no allocation fails and the planes are there returns 0
\* when the library holds no picture, and otherwise returns a record of the
\* first picture it holds and leaves the others for the next calls.
C6_FlushDrainsOnePerCall ==
  [][(Ready /\ last'.op = "flush" /\ LiveHandle(last'.h)
        /\ last'.in.planes = "yuv"
        /\ \A i \in DOMAIN last'.mallocs : last'.mallocs[i] # 0) =>
       LET b == Buffered(lib[last'.h])
       IN IF b = <<>>
          THEN last'.ret = 0
          ELSE /\ last'.ret # 0
               /\ heap'[last'.ret].pic = Head(b)
               /\ Buffered(lib'[last'.h]) = Tail(b)]_vars

\* C7: the host that creates a decoder and keeps feeding a valid stream with
\* at least one frame eventually gets a non-empty Frame Record from decode.
C7_EventuallyARecord == <>(last.op = "decode" /\ last.ret # 0)

\* C8: a configure, decode, flush or destroy call made with a token on which
\* destroy has completed does nothing: it reads no freed session memory, calls
\* no library function, frees nothing (the session block would be freed a
\* second time), returns 0, and does not trap.
C8_DestroyedHandleNoOp ==
  (last.op \in {"configure", "decode", "flush", "destroy"}
     /\ last.h \in Freed(last.codec)) =>
    /\ last.faults = {}
    /\ last.libcalls = <<>>
    /\ last.freed = <<>>
    /\ last.ret = 0
    /\ pc = Idle

\* C2: extraction is all-or-nothing in the three adapters.  When any of the four
\* allocations fails, decode/flush returns 0 and every allocation that
\* succeeded has been freed, once; when a record is returned, the four
\* allocations succeeded, are distinct and live, and the record points at the
\* three planes.
C2_ExtractionAllOrNothing ==
  last.op \in {"decode", "flush"} =>
    LET m == FrameMallocs(last)
    IN /\ last.ret # 0 => m # <<>>
       /\ m # <<>> =>
            IF \E i \in 1..4 : m[i] = 0
            THEN /\ last.ret = 0
                 /\ last.freed = NonNull(m)
                 /\ \A i \in 1..4 : m[i] # 0 => heap[m[i]].kind = "free"
            ELSE /\ last.ret = m[4]
                 /\ Cardinality({m[i] : i \in 1..4}) = 4
                 /\ heap[m[4]].kind = "record"
                 /\ <<heap[m[4]].yPtr, heap[m[4]].uPtr, heap[m[4]].vPtr>> = SubSeq(m, 1, 3)
                 /\ \A i \in 1..3 : heap[m[i]].kind = "plane"
                 /\ last.freed = <<>>

\* An extraction in which the Y and V planes were allocated and the U plane and
\* the record were not.
C2_Witness ==
  /\ last.op \in {"decode", "flush"}
  /\ FrameMallocs(last) # <<>>
  /\ FrameMallocs(last)[1] # 0
  /\ FrameMallocs(last)[2] = 0
  /\ FrameMallocs(last)[3] # 0
  /\ FrameMallocs(last)[4] = 0

\* C4: one free_frame call on a record the host holds frees the record's Y, U
\* and V planes and the record, four distinct live blocks, each once, and
\* changes nothing else of the heap or the library; free_frame(0) frees nothing.
C4_FreeFrameFreesFour ==
  [][(Ready /\ last'.op = "free_frame") =>
       IF last'.h = 0
       THEN last'.freed = <<>> /\ heap' = heap /\ lib' = lib
       ELSE LET frame == heap[last'.h]
                four  == {frame.yPtr, frame.uPtr, frame.vPtr, last'.h}
            IN /\ frame.kind = "record"
               /\ last'.freed = <<frame.yPtr, frame.uPtr, frame.vPtr, last'.h>>
               /\ Cardinality(four) = 4
               /\ \A a \in four : Live(heap, a)
               /\ heap' = [a \in Addr |-> IF a \in four THEN NoBlock ELSE heap[a]]
               /\ lib' = lib]_vars

\* free_frame has returned from releasing a record.
C4_Witness ==
  last.op = "free_frame" /\ last.h # 0 /\ Len(last.freed) = 4 /\ host.handles # {}

\* C9: a configure, decode, flush or destroy call with the null handle returns
\* 0 (decode, flush) and makes no library call, no allocation and no free: the
\* heap and the library contexts are as before.
C9_NullHandleNoOp ==
  [][(Ready /\ last'.op \in {"configure", "decode", "flush", "destroy"} /\ last'.h = 0) =>
       /\ last'.ret = 0
       /\ last'.libcalls = <<>> /\ last'.mallocs = <<>> /\ last'.freed = <<>>
       /\ heap' = heap /\ lib' = lib]_vars

\* A destroy call with the null handle has returned while a session is live.
C9_Witness ==
  last.op = "destroy" /\ last.h = 0 /\ last.codec = "hevc" /\ host.handles # {}

\* C10: decode on a live handle with a null data pointer or a size <= 0 returns
\* 0 and leaves the decoder as it was: no library call (nothing pushed, no
\* picture taken or released), no allocation, heap and contexts unchanged.
C10_BadInputNoOp ==
  [][(Ready /\ last'.op = "decode" /\ LiveHandle(last'.h)
        /\ (~last'.in.data \/ last'.in.size <= 0)) =>
       /\ last'.ret = 0 /\ last'.pic = 0
       /\ last'.libcalls = <<>> /\ last'.mallocs = <<>> /\ last'.freed = <<>>
       /\ heap' = heap /\ lib' = lib]_vars

\* A decode call with data and size 0 has returned on a live hevc handle whose
\* library holds a picture ready for output.
C10_Witness ==
  /\ last.op = "decode" /\ last.codec = "hevc" /\ LiveHandle(last.h)
  /\ last.in.data /\ last.in.size = 0
  /\ lib[last.h].outq # <<>>

\* ------------------------------------------------------------- the record
IsRecord == rec.made /\ rec.ret = "record"

\* uvSize as the chromaFormat of the record implies it.
UvSizeOfFormat(fmt, w, h, bps) ==
  CASE fmt = 420 -> MulInt32(MulInt32((w + 1) \div 2, (h + 1) \div 2), bps)
    [] fmt = 422 -> MulInt32(MulInt32((w + 1) \div 2, h), bps)
    [] fmt = 444 -> MulInt32(MulInt32(w, h), bps)
    [] OTHER -> -1

\* C11: every record an extractor returns is self-consistent for every pixel
\* layout, monochrome included: chromaFormat is 420, 422 or 444 and uvSize is
\* the chroma width times the chroma height times the bytes per sample that
\* this chromaFormat implies for the record's width and height.
C11_RecordSelfConsistent ==
  IsRecord =>
    /\ rec.chromaFormat \in {420, 422, 444}
    /\ rec.uvSize = UvSizeOfFormat(rec.chromaFormat, rec.width, rec.height,
                                   IF rec.bitDepth > 8 THEN 2 ELSE 1)

\* C12: the bitDepth of every record is 8 or 10, whatever depth the library
\* reports for the picture, and the planes have 2 bytes per sample exactly
\* when bitDepth is greater than 8 (ySize is width * height * bytes per sample).
C12_BitDepthEightOrTen ==
  IsRecord =>
    /\ rec.bitDepth \in {8, 10}
    /\ rec.ySize = MulInt32(MulInt32(rec.width, rec.height), IF rec.bitDepth > 8 THEN 2 ELSE 1)

\* C13: for each adapter, each chroma format of 420, 422, 444, each bit depth
\* of 8 and 10 and every width and height, the record has
\* ySize = width * height * bytesPerSample and
\* uvSize = chromaW * chromaH * bytesPerSample (1 byte per sample for 8 bits,
\* 2 for 10; chromaW is the width halved, rounded up, for 420 and 422, and
\* chromaH the height halved, rounded up, for 420; the products are those of
\* the integers), and the three adapters compute the same
\* (chromaFormat, ySize, uvSize) for the same picture.
C13_SizesAgree ==
  (IsRecord /\ pict.layout \in {"420", "422", "444"} /\ pict.depth \in {8, 10}) =>
    LET bps == IF pict.depth = 8 THEN 1 ELSE 2
        fmt == CASE pict.layout = "420" -> 420 [] pict.layout = "422" -> 422
                 [] pict.layout = "444" -> 444
        cw  == IF fmt = 444 THEN pict.w ELSE (pict.w + 1) \div 2
        ch  == IF fmt = 420 THEN (pict.h + 1) \div 2 ELSE pict.h
    IN /\ rec.chromaFormat = fmt
       /\ rec.ySize = pict.w * pict.h * bps
       /\ rec.uvSize = cw * ch * bps
       /\ \A c \in Codecs :
            LET hd == HeaderOf([pict EXCEPT !.codec = c])
            IN <<hd.chromaFormat, hd.ySize, hd.uvSize>> = <<rec.chromaFormat, rec.ySize, rec.uvSize>>

C13_Witness ==
  /\ IsRecord /\ pict.codec = "vp9" /\ pict.layout = "422" /\ pict.depth = 10
  /\ pict.w = 3 /\ pict.h = 3
  /\ rec.ySize = 18 /\ rec.uvSize = 12

RecPlane(plane) == CASE plane = "y" -> rec.y [] plane = "u" -> rec.u [] plane = "v" -> rec.v

\* C14: when the stride of a plane of the source picture is at least the
\* packed width of its rows, each row r of that plane of the record is byte for
\* byte the first rowBytes bytes of row r of the source plane, read at the
\* stride the library reports for that plane, and the plane of the record is
\* exactly rows * rowBytes bytes, the size the record gives for it, with
\* nothing between the rows.  (rows and rowBytes are the bounds of the copy
\* loop of the plane; a plane that is not there has stride 0.)
C14_RowsCopiedPacked ==
  (IsRecord /\ Followed(pict)) =>
    \A plane \in {"y", "u", "v"} :
      LET hd       == HeaderOf(pict)
          rows     == IF plane = "y" THEN hd.height ELSE hd.chromaH
          rowBytes == IF plane = "y" THEN hd.yRowBytes ELSE hd.uvRowBytes
          size     == IF plane = "y" THEN rec.ySize ELSE rec.uvSize
      IN Stride(pict, plane) >= rowBytes =>
           /\ Len(RecPlane(plane)) = rows * rowBytes
           /\ Len(RecPlane(plane)) = size
           /\ \A r \in 0..(rows - 1), k \in 0..(rowBytes - 1) :
                RecPlane(plane)[r * rowBytes + k + 1] = SrcByte(plane, r * Stride(pict, plane) + k)

C14_Witness ==
  /\ IsRecord /\ pict.codec = "hevc" /\ pict.layout = "420" /\ pict.depth = 10
  /\ pict.w = 3 /\ pict.h = 3
  /\ pict.yPad = 1 /\ pict.uPad = 1 /\ pict.vPad = 0
  /\ Len(rec.y) = 18 /\ Len(rec.u) = 8
  /\ rec.y[7] = SrcByte("y", 7)

\* ------------------------------------------------------------- sessions
\* C15: configure of the av1 and vp9 adapters does nothing: for any handle,
\* bytes and length, the call returns 0 with no allocation, release or library
\* call, and the session, its library context and the records the host holds
\* are after it what they were before, so the calls that follow it find the
\* state they would have found without it.
C15_ConfigureIsNoOp ==
  [][(last = NoCall /\ last'.op = "configure" /\ last'.codec \in {"av1", "vp9"}) =>
       /\ heap' = heap /\ lib' = lib /\ host' = host
       /\ last'.ret = 0
       /\ last'.mallocs = <<>> /\ last'.freed = <<>> /\ last'.libcalls = <<>>]_vars

C15_Witness ==
  /\ last.op = "configure" /\ last.codec = "av1"
  /\ last.h # 0 /\ last.in.data /\ last.in.size > 0
  /\ LiveHandle(last.h) /\ Buffered(lib[last.h]) # <<>>
  /\ host.frames # {}

\* C16: create returns no partial handle.  When the allocation of the session
\* or the opening of the library context fails it returns 0 and leaves nothing
\* allocated: the heap and the contexts are what they were and every block it
\* allocated it freed.  When it returns a token, the token is a session block
\* holding the one open context of its adapter, the only one created, which
\* decode, flush and destroy accept.
C16_NoPartialHandle ==
  [][(last = NoCall /\ last'.op = "create") =>
       IF last'.ret = 0
         THEN /\ heap' = heap /\ lib' = lib
              /\ \A i \in DOMAIN last'.mallocs :
                   last'.mallocs[i] # 0 => \E j \in DOMAIN last'.freed : last'.freed[j] = last'.mallocs[i]
         ELSE /\ heap[last'.ret].kind = "free" /\ heap'[last'.ret].kind = "session"
              /\ heap'[last'.ret].codec = last'.codec
              /\ lib[last'.ret].kind = "none"
              /\ lib'[last'.ret].kind =
                   (CASE last'.codec = "av1" -> "dav1d" [] last'.codec = "hevc" -> "de265"
                      [] last'.codec = "vp9" -> "vpx")
              /\ last'.freed = <<>>
              /\ \A a \in Addr \ {last'.ret} : heap'[a] = heap[a] /\ lib'[a] = lib[a]]_vars

\* Create failed after the session block was allocated.
C16_Witness ==
  /\ last.op = "create" /\ last.codec = "av1" /\ last.ret = 0
  /\ last.mallocs # <<0>> /\ last.freed = last.mallocs
  /\ \A a \in Addr : heap[a].kind # "session"

\* C17: a record that decode or flush has returned is the host's: no later
\* configure, decode, flush, destroy or create, on the handle that produced it
\* or on another, frees or changes the record or one of its three planes; only
\* free_frame on the token of that record does.
C17_RecordsAreTheHosts ==
  [][\A f \in host.frames \ (IF last.op = "free_frame" THEN {last.h} ELSE {}) :
       ~(last = NoCall /\ last'.op = "free_frame" /\ last'.h = f) =>
         /\ heap'[f].kind = "record"
         /\ \A b \in {f, heap[f].yPtr, heap[f].uPtr, heap[f].vPtr} :
              /\ heap'[b] = heap[b]
              /\ (last = NoCall /\ last' # NoCall) =>
                   \A i \in DOMAIN last'.freed : last'.freed[i] # b]_vars

\* decode on a session returned the record of its first picture while the host
\* holds the record of the second picture of an earlier session, since
\* destroyed.
C17_Witness ==
  /\ last.op = "decode" /\ last.ret # 0 /\ last.ret \notin host.frames
  /\ \E f \in host.frames :
       heap[f].kind = "record" /\ heap[f].pic > last.pic /\ Live(heap, heap[f].vPtr)

\* ------------------------------------------------------------- pictures
Times(call, calls) == Cardinality({i \in DOMAIN calls : calls[i] = call})

ReleaseOf(codec) ==
  IF codec = "av1" THEN "dav1d_picture_unref" ELSE "de265_release_next_picture"

\* C18: in the av1 and hevc adapters a decode or flush call that obtained a
\* picture from the library released it exactly once before it returned,
\* whether a record was made of it or not (the release is the call's last
\* library call and the library no longer holds the picture for output); a
\* call that obtained none released none.
C18_PictureReleasedOnce ==
  (last.op \in {"decode", "flush"} /\ last.codec \in {"av1", "hevc"}) =>
    IF last.pic # 0
      THEN /\ Times(ReleaseOf(last.codec), last.libcalls) = 1
           /\ last.libcalls[Len(last.libcalls)] = ReleaseOf(last.codec)
           /\ \A i \in DOMAIN Buffered(lib[last.h]) : Buffered(lib[last.h])[i] # last.pic
      ELSE Times(ReleaseOf(last.codec), last.libcalls) = 0

\* hevc obtained a picture and made no record of it.
C18_Witness ==
  /\ last.op \in {"decode", "flush"} /\ last.codec = "hevc"
  /\ last.pic # 0 /\ last.ret = 0
  /\ Times("de265_release_next_picture", last.libcalls) = 1

\* C19: no picture is lost or reordered.  In every step of a session that goes
\* on living, in which no allocation fails and the picture taken has its three
\* planes, the pictures the library held for
\* output before the step are, in the same order, the picture the step returns
\* to the host as a record (if any) followed by the pictures the library holds
\* after it, up to the pictures the step's chunk added at the end: a picture
\* leaves the library only as the record a decode or flush call returns, the
\* first in output order first.
C19_NoPictureLost ==
  [][\A h \in host.handles :
       (/\ lib[h].kind # "none" /\ lib'[h].kind # "none"
        /\ last'.in.planes = "yuv"
        /\ \A i \in DOMAIN last'.mallocs : last'.mallocs[i] # 0) =>
         LET b == Buffered(lib[h])
             r == IF last' # last /\ last'.op \in {"decode", "flush"}
                       /\ last'.h = h /\ last'.ret # 0
                    THEN <<last'.pic>> ELSE <<>>
             a == r \o Buffered(lib'[h])
         IN Len(b) <= Len(a) /\ SubSeq(a, 1, Len(b)) = b]_vars

\* ------------------------------------------------------------- plane buffers
\* C20: the copy loops write inside the buffers they allocated: for every
\* width and height a library can report, with ySize and uvSize as the int
\* products give them (wrapping modulo 2^32), every row written,
\* [row * rowBytes, row * rowBytes + rowBytes), lies within the ySize bytes of
\* the luma buffer, respectively the uvSize bytes of a chroma buffer.  (A
\* picture whose sizes do not fit an int takes half the memory or more: the
\* copy of it cannot be allocated and its loops do not run.)
C20_RowsWithinBuffers ==
  /\ IsRecord =>
        LET hd == HeaderOf(pict)
        IN /\ "oob_write" \notin rec.faults
           /\ \A row \in {0, rec.height - 1} :
                MulInt32(row, hd.yRowBytes) + hd.yRowBytes <= rec.ySize
           /\ \A row \in {0, hd.chromaH - 1} :
                MulInt32(row, hd.uvRowBytes) + hd.uvRowBytes <= rec.uvSize
  /\ (rec.made /\ (HeaderOf(pict).ySize < 0 \/ HeaderOf(pict).uvSize < 0)) => rec.ret = "null"

\* A record was made of a picture whose luma plane is 2^29 samples of two bytes.
C20_Witness ==
  /\ IsRecord /\ pict.w = 32768 /\ pict.h = 16384 /\ pict.depth = 10 /\ pict.layout = "420"
  /\ rec.ySize = 1073741824 /\ rec.uvSize = 268435456

====
